---- MODULE Spec2Model ----
(***************************************************************************)
(* A model of image-typesetting-tool (src/src/main.rs, src/src/utils.rs):  *)
(* the batching iterator, the layout configuration, the page pipeline of   *)
(* process_with_pb with its progress worker thread, and main.              *)
(*                                                                         *)
(* Units.  The program computes in f64 centimetres; the model keeps every  *)
(* length in tenths of a centimetre (5.0 cm = 50) and every density as a   *)
(* rational num/den pixels per centimetre (118.11 = 11811/100,             *)
(* ppi / 2.54 = ppi*100/254), so that products and quotients are exact and *)
(* only f64::round and the `as u32` cast are modelled as conversions.  The *)
(* f64 rounding error of a product is not modelled: it changes a pixel     *)
(* count only where the exact value is a half, and the option values of    *)
(* the harness (whole centimetres, densities that are multiples of         *)
(* 39.37 px/cm or of 150 ppi) and the defaults produce no exact half.      *)
(* Grid counts are at least 1: with --nh 0 or --nv 0 the subtraction       *)
(* n - 1 underflows.                                                       *)
(***************************************************************************)
EXTENDS Integers, Sequences, FiniteSets, TLC

\* ---------------------------------------------------------------- bounds
\* most files in the input directory of a run on the default grid, and of a
\* run with --nh or --nv given
MaxFiles == 13
MaxFilesGrid == 5
\* largest explicit --nh / --nv of a pipeline run (the defaults 4 and 3 are
\* reached through the absent option)
MaxNh == 2
MaxNv == 2
\* BatchIter harness: longest inner sequence, largest item, largest batch size
MaxLen == 6
MaxItem == 2
MaxBatch == 3
\* Config harness: ranges of the command line options
MaxHeightCm == 8
MaxBorderCm == 2
MaxMarginCm == 2
MaxGrid == 4
MaxDim == 8
MaxDensityStep == 2

\* ------------------------------------------------------ program constants
DefaultNh == 4
DefaultNv == 3
\* 5.0 cm, 0.8 cm, 0.3 cm, in tenths of a centimetre
DefaultHeight == 50
DefaultBorder == 8
DefaultMargin == 3
\* 118.11 pixels per centimetre, in hundredths
DefaultPpc == 11811
\* 2.54 centimetres per inch, in hundredths
InchCm == 254
\* A4 landscape: 21.0 cm high, 29.7 cm wide, in tenths
PaperH == 210
PaperW == 297
\* the divisor of n_batch
NBatchDivisor == 12

\* ----------------------------------------------------------------- state
VARIABLES
    pc,          \* position of the main flow (or of a harness)
    cli,         \* the parsed command line: every option is {} or {value}
    indir,       \* the input directory: readable flag and its entries
    outdir,      \* the output directory: "absent", "stale" or "fresh"
    inputs,      \* Vec<PathBuf> returned by scan_inputs
    config,      \* the Config of from_cli_default
    iter,        \* BatchIter: inner (the rest of the sequence), batch_size
    batch_i,     \* the enumerate() index of the for loop
    batch_inputs,\* the batch being processed
    images,      \* images loaded by load_images for this batch
    normalized,  \* images normalized by draw_canvas for this batch
    canvas,      \* placements made on the page being composed
    written,     \* page files saved in this run, in order
    opened,      \* every file handed to image::open, in order
    yielded,     \* every batch BatchIter::next has returned, in order
    chan,        \* messages in flight on the mpsc channel
    sent,        \* every message the main flow has passed to tx.send
    sendFailed,  \* number of tx.send calls that returned Err
    senders,     \* live Sender handles (tx and its clones)
    worker,      \* progress thread: "none", "running", "exited", "panicked"
    bars,        \* the four progress bars the worker owns
    joined,      \* handle.join() has returned
    result,      \* what process_with_pb returned
    fault,       \* the I/O failure the environment produced, if any
    stderr,      \* lines main printed to the error stream
    exit         \* what main returned

vars == <<pc, cli, indir, outdir, inputs, config, iter, batch_i, batch_inputs,
          images, normalized, canvas, written, opened, yielded, chan, sent,
          sendFailed, senders, worker, bars, joined, result, fault, stderr, exit>>

\* ---------------------------------------------------------------- helpers
\* Option<T>::unwrap_or
UnwrapOr(opt, d) == IF opt = {} THEN d ELSE CHOOSE v \in opt : TRUE

Min(a, b) == IF a <= b THEN a ELSE b

\* ceil(a / b) for a >= 0, b > 0
CeilDiv(a, b) == (a + b - 1) \div b

\* concatenation of a sequence of sequences
RECURSIVE Concat(_)
Concat(ss) == IF ss = <<>> THEN <<>> ELSE Head(ss) \o Concat(Tail(ss))

\* all sequences over S of length at most n
SeqsUpTo(S, n) == UNION {[1..k -> S] : k \in 0..n}

\* ------------------------------------------------------ utils.rs BatchIter
\* BatchIter::new
BatchIterNew(inner, batch_size) == [inner |-> inner, batch_size |-> batch_size]

\* the body of `for _ in 0..batch_size`: one self.inner.next() per round,
\* break at the first None
RECURSIVE TakeLoop(_, _, _)
TakeLoop(inner, batch, rounds) ==
    IF rounds = 0 THEN [batch |-> batch, inner |-> inner]
    ELSE IF inner = <<>> THEN [batch |-> batch, inner |-> inner]
    ELSE TakeLoop(Tail(inner), Append(batch, Head(inner)), rounds - 1)

\* a mutation of BatchIterNext: one more item is pulled to look ahead and is
\* not kept
BatchIterNextLookahead(it) ==
    LET r == TakeLoop(it.inner, <<>>, it.batch_size)
    IN  [some  |-> r.batch /= <<>>,
         batch |-> r.batch,
         it    |-> [it EXCEPT !.inner = IF r.inner = <<>> THEN <<>> ELSE Tail(r.inner)]]

\* a mutation of BatchIterNext: the loop runs over `0..=batch_size`
BatchIterNextInclusive(it) ==
    LET r == TakeLoop(it.inner, <<>>, it.batch_size + 1)
    IN  [some  |-> r.batch /= <<>>,
         batch |-> r.batch,
         it    |-> [it EXCEPT !.inner = r.inner]]

\* BatchIter::next: Some(batch) unless the batch is empty; the iterator after it
BatchIterNext(it) ==
    LET r == TakeLoop(it.inner, <<>>, it.batch_size)
    IN  [some  |-> r.batch /= <<>>,
         batch |-> r.batch,
         it    |-> [it EXCEPT !.inner = r.inner]]

\* ------------------------------------------------ main.rs from_cli_default
\* f64::round of the rational p/q (q > 0): to nearest, halves away from zero
RoundDiv(p, q) ==
    IF p >= 0 THEN (2 * p + q) \div (2 * q)
    ELSE -((2 * (-p) + q) \div (2 * q))

\* `x.round() as u32` of the rational p/q: the cast saturates, a negative
\* value becomes 0 (the upper end, u32::MAX, is beyond every value the
\* bounded options produce)
RoundAsU32(p, q) == IF RoundDiv(p, q) < 0 THEN 0 ELSE RoundDiv(p, q)

\* a mutation of Ppc: --ppc wins when both are given
PpcPrefersPpc(c) ==
    IF c.ppc /= {} THEN [num |-> UnwrapOr(c.ppc, 0), den |-> 100]
    ELSE IF c.ppi /= {} THEN [num |-> 100 * UnwrapOr(c.ppi, 0), den |-> InchCm]
    ELSE [num |-> DefaultPpc, den |-> 100]

\* the density as a rational: ppi / 2.54 when --ppi is given, else --ppc or
\* the default 118.11
Ppc(c) ==
    IF c.ppi /= {} THEN [num |-> 100 * UnwrapOr(c.ppi, 0), den |-> InchCm]
    ELSE [num |-> UnwrapOr(c.ppc, DefaultPpc), den |-> 100]

\* (cm * ppc).round() as u32, cm in tenths
CmToPx(tenths, ppc) == RoundAsU32(tenths * ppc.num, 10 * ppc.den)

\* ((paper - 2.0 * border - (n - 1) * margin) / n * ppc).round() as u32
MaxCellPx(paper, border, margin, n, ppc) ==
    RoundAsU32((paper - 2 * border - (n - 1) * margin) * ppc.num, 10 * n * ppc.den)

\* a mutation of ClampTarget: the `if target_h_px > max_h_px` block is missing
ClampTargetMissing(target_h_px, max_h_px) == target_h_px

\* the validation block: a target above the maximum is set to the maximum
ClampTarget(target_h_px, max_h_px) ==
    IF target_h_px > max_h_px THEN max_h_px ELSE target_h_px

\* Config::from_cli_default
FromCliDefault(c) ==
    LET n_h == UnwrapOr(c.nh, DefaultNh)
        n_v == UnwrapOr(c.nv, DefaultNv)
        target_h_cm == UnwrapOr(c.height, DefaultHeight)
        paper_border_cm == UnwrapOr(c.border, DefaultBorder)
        min_margin_v_cm == UnwrapOr(c.margin, DefaultMargin)
        min_margin_h_cm == UnwrapOr(c.margin, DefaultMargin)
        ppc == Ppc(c)
        max_h_px == MaxCellPx(PaperH, paper_border_cm, min_margin_v_cm, n_v, ppc)
        max_w_px == MaxCellPx(PaperW, paper_border_cm, min_margin_h_cm, n_h, ppc)
    IN  [ppc             |-> ppc,
         paper_border_px |-> CmToPx(paper_border_cm, ppc),
         min_margin_v_px |-> CmToPx(min_margin_v_cm, ppc),
         min_margin_h_px |-> CmToPx(min_margin_h_cm, ppc),
         target_h_px     |-> ClampTarget(CmToPx(target_h_cm, ppc), max_h_px),
         max_h_px        |-> max_h_px,
         max_w_px        |-> max_w_px,
         n_h             |-> n_h,
         n_v             |-> n_v]

\* the Config before from_cli_default has run
NoConfig ==
    [ppc |-> [num |-> 0, den |-> 1], paper_border_px |-> 0, min_margin_v_px |-> 0,
     min_margin_h_px |-> 0, target_h_px |-> 0, max_h_px |-> 0, max_w_px |-> 0,
     n_h |-> 0, n_v |-> 0]

\* row_and_col_from_index: (row, col)
RowAndColSwapped(nh, idx) == <<idx % nh, idx \div nh>>

row_and_col_from_index(nh, idx) == <<idx \div nh, idx % nh>>

\* ------------------------------------------------------- values and inputs
\* Option values: None is {}, Some(v) is {v}
Opt(S) == {{}} \cup {{v} : v \in S}

\* Result<(), Error> of process_with_pb
Pending == [tag |-> "Pending", kind |-> "None"]
Ok == [tag |-> "Ok", kind |-> "None"]
Err(kind) == [tag |-> "Err", kind |-> kind]

\* the I/O failure of a run: whether remove_dir_all failed on an existing
\* directory, and the failing call that ended the run with its position
NoFault == [remove |-> FALSE, kind |-> "none", at |-> 0]

\* PBData: the variant and its payload (0 when it has none)
Msg(t, n) == [t |-> t, n |-> n]

\* the bars right after the worker has built them: ProgressBar::new(0)
NewBar == [len |-> 0, pos |-> 0, finished |-> FALSE]
NoBars == [output |-> NewBar, read |-> NewBar, process |-> NewBar, comp |-> NewBar,
           read_msg |-> Msg("title", 0), removed |-> FALSE]

\* a directory of d sub-directories and k files, in read_dir order
DirEntries(d, k) == [i \in 1..(d + k) |-> [id |-> i, is_file |-> i > d]]

\* the input directories of a run: missing, or readable and holding one
\* sub-directory and k files
InDirs ==
    {[readable |-> FALSE, entries |-> <<>>]} \cup
    {[readable |-> TRUE, entries |-> DirEntries(1, k)] : k \in 0..MaxFiles}

\* the command lines of a pipeline run: the grid is given or left to its
\* default, the lengths and the density are left to their defaults
PipelineClis ==
    [nh : Opt(1..MaxNh), nv : Opt(1..MaxNv), height : {{}}, border : {{}},
     margin : {{}}, ppc : {{}}, ppi : {{}}]

\* the state shared by the pipeline and the two harnesses before anything ran
Idle ==
    /\ config = NoConfig
    /\ batch_i = 0
    /\ batch_inputs = <<>>
    /\ images = <<>>
    /\ normalized = <<>>
    /\ canvas = <<>>
    /\ written = <<>>
    /\ opened = <<>>
    /\ yielded = <<>>
    /\ chan = <<>>
    /\ sent = <<>>
    /\ sendFailed = 0
    /\ senders = 0
    /\ worker = "none"
    /\ bars = NoBars
    /\ joined = FALSE
    /\ result = Pending
    /\ fault = NoFault
    /\ stderr = <<>>
    /\ exit = "running"

\* ------------------------------------------------------------ the pipeline
Init ==
    /\ pc = "scan"
    /\ cli \in PipelineClis
    /\ indir \in InDirs
    /\ (cli.nh = {} /\ cli.nv = {}) \/ Len(indir.entries) <= 1 + MaxFilesGrid
    /\ inputs = <<>>
    /\ iter = BatchIterNew(<<>>, 0)
    /\ outdir \in {"absent", "stale"}
    /\ Idle

\* mpsc::channel() is unbounded: a send never waits for room
ChannelBounded == Len(chan) < 1

ChannelHasRoom == TRUE

\* `let _ = tx.send(m)` for each m of ms in order: the message is queued
\* while the receiver lives, refused (Err, ignored) once it is dropped
TxSend(ms) ==
    /\ ChannelHasRoom
    /\ sent' = sent \o ms
    /\ IF worker = "running"
       THEN chan' = chan \o ms /\ sendFailed' = sendFailed
       ELSE chan' = chan /\ sendFailed' = sendFailed + Len(ms)

\* `?` on an Err: process_with_pb returns it, dropping tx and its clones
Abort(kind, why, at) ==
    /\ result' = Err(kind)
    /\ fault' = [fault EXCEPT !.kind = why, !.at = at]
    /\ senders' = 0
    /\ pc' = "main"

\* a mutation of ScanReadDirErr: a directory that cannot be read is taken as
\* an empty listing
ScanReadDirErrIgnored ==
    /\ pc = "scan"
    /\ ~indir.readable
    /\ inputs' = <<>>
    /\ pc' = "config"
    /\ UNCHANGED <<cli, indir, outdir, config, iter, batch_i, batch_inputs, images,
                   normalized, canvas, written, opened, yielded, chan, sent,
                   sendFailed, senders, worker, bars, joined, result, fault, stderr,
                   exit>>

\* scan_inputs fails: fs::read_dir returned Err (Input error)
ScanReadDirErr ==
    /\ pc = "scan"
    /\ ~indir.readable
    /\ Abort("Input", "read_dir", 0)
    /\ UNCHANGED <<cli, indir, outdir, inputs, config, iter, batch_i, batch_inputs,
                   images, normalized, canvas, written, opened, yielded, chan, sent,
                   sendFailed, worker, bars, joined, stderr, exit>>

\* scan_inputs fails: an entry of the listing is an Err (Io error)
ScanEntryErr ==
    /\ pc = "scan"
    /\ indir.readable
    /\ \E n \in 1..Len(indir.entries) : Abort("Io", "entry", n)
    /\ UNCHANGED <<cli, indir, outdir, inputs, config, iter, batch_i, batch_inputs,
                   images, normalized, canvas, written, opened, yielded, chan, sent,
                   sendFailed, worker, bars, joined, stderr, exit>>

\* the paths scan_inputs keeps: the entries that are files, in listing order
RECURSIVE FilesOf(_)
FilesOf(entries) ==
    IF entries = <<>> THEN <<>>
    ELSE IF Head(entries).is_file THEN <<Head(entries).id>> \o FilesOf(Tail(entries))
    ELSE FilesOf(Tail(entries))

\* scan_inputs succeeds
ScanOk ==
    /\ pc = "scan"
    /\ indir.readable
    /\ inputs' = FilesOf(indir.entries)
    /\ pc' = "config"
    /\ UNCHANGED <<cli, indir, outdir, config, iter, batch_i, batch_inputs, images,
                   normalized, canvas, written, opened, yielded, chan, sent,
                   sendFailed, senders, worker, bars, joined, result, fault, stderr,
                   exit>>

\* let config = Config::from_cli_default(&cli)
Configure ==
    /\ pc = "config"
    /\ config' = FromCliDefault(cli)
    /\ pc' = "remove_dir"
    /\ UNCHANGED <<cli, indir, outdir, inputs, iter, batch_i, batch_inputs, images,
                   normalized, canvas, written, opened, yielded, chan, sent,
                   sendFailed, senders, worker, bars, joined, result, fault, stderr,
                   exit>>

\* `let _ = fs::remove_dir_all(&output_dir)`: the directory is removed, or the
\* call fails (always when there is none) and the failure is dropped
RemoveDirAll ==
    /\ pc = "remove_dir"
    /\ \/ outdir = "stale" /\ outdir' = "absent" /\ fault' = fault
       \/ outdir = "stale" /\ outdir' = outdir /\ fault' = [fault EXCEPT !.remove = TRUE]
       \/ outdir = "absent" /\ outdir' = outdir /\ fault' = fault
    /\ pc' = "create_dir"
    /\ UNCHANGED <<cli, indir, inputs, config, iter, batch_i, batch_inputs, images,
                   normalized, canvas, written, opened, yielded, chan, sent,
                   sendFailed, senders, worker, bars, joined, result, stderr, exit>>

\* fs::create_dir_all(&output_dir) succeeds (at once when the directory exists)
CreateDirOk ==
    /\ pc = "create_dir"
    /\ outdir' = IF outdir = "absent" THEN "fresh" ELSE outdir
    /\ pc' = "init_pb"
    /\ UNCHANGED <<cli, indir, inputs, config, iter, batch_i, batch_inputs, images,
                   normalized, canvas, written, opened, yielded, chan, sent,
                   sendFailed, senders, worker, bars, joined, result, fault, stderr,
                   exit>>

\* fs::create_dir_all(&output_dir) fails (Io error)
CreateDirErr ==
    /\ pc = "create_dir"
    /\ outdir = "absent"
    /\ Abort("Io", "create_dir", 0)
    /\ UNCHANGED <<cli, indir, outdir, inputs, config, iter, batch_i, batch_inputs,
                   images, normalized, canvas, written, opened, yielded, chan, sent,
                   sendFailed, worker, bars, joined, stderr, exit>>

\* n_batch = (n_input as f64 / 12 as f64).ceil() as u64
NBatch(n_input) == CeilDiv(n_input, NBatchDivisor)

\* init_pb_thread() spawns the worker with the receiver; NewOutput(n_batch) is
\* sent on the returned tx
InitPb ==
    /\ pc = "init_pb"
    /\ worker' = "running"
    /\ senders' = 1
    /\ ChannelHasRoom
    /\ sent' = sent \o <<Msg("NewOutput", NBatch(Len(inputs)))>>
    /\ chan' = chan \o <<Msg("NewOutput", NBatch(Len(inputs)))>>
    /\ pc' = "make_iter"
    /\ UNCHANGED <<cli, indir, outdir, inputs, config, iter, batch_i, batch_inputs,
                   images, normalized, canvas, written, opened, yielded, sendFailed,
                   bars, joined, result, fault, stderr, exit>>

\* batch_size = (n_h * n_v) as usize; BatchIter::new(inputs.into_iter(), batch_size)
MakeIter ==
    /\ pc = "make_iter"
    /\ iter' = BatchIterNew(inputs, config.n_h * config.n_v)
    /\ batch_i' = 0
    /\ pc' = "next_batch"
    /\ UNCHANGED <<cli, indir, outdir, inputs, config, batch_inputs, images,
                   normalized, canvas, written, opened, yielded, chan, sent,
                   sendFailed, senders, worker, bars, joined, result, fault, stderr,
                   exit>>

\* the for loop asks the iterator for the next batch and gets Some(batch)
ForNextSome ==
    /\ pc = "next_batch"
    /\ BatchIterNext(iter).some
    /\ iter' = BatchIterNext(iter).it
    /\ batch_inputs' = BatchIterNext(iter).batch
    /\ yielded' = Append(yielded, BatchIterNext(iter).batch)
    /\ batch_i' = Len(yielded)
    /\ images' = <<>>
    /\ normalized' = <<>>
    /\ canvas' = <<>>
    /\ pc' = "batch_head"
    /\ UNCHANGED <<cli, indir, outdir, inputs, config, written, opened, chan, sent,
                   sendFailed, senders, worker, bars, joined, result, fault, stderr,
                   exit>>

\* the for loop asks the iterator for the next batch and gets None
ForNextNone ==
    /\ pc = "next_batch"
    /\ ~BatchIterNext(iter).some
    /\ iter' = BatchIterNext(iter).it
    /\ pc' = "finish"
    /\ UNCHANGED <<cli, indir, outdir, inputs, config, batch_i, batch_inputs, images,
                   normalized, canvas, written, opened, yielded, chan, sent,
                   sendFailed, senders, worker, bars, joined, result, fault, stderr,
                   exit>>

\* a mutation of BatchHeadMsgs: the positions are set before the lengths
BatchHeadMsgsSetFirst(n) ==
    <<Msg("SetRead", 0), Msg("SetProcess", 0), Msg("SetComp", 0),
      Msg("NewRead", n), Msg("NewProcess", n), Msg("NewComp", n)>>

\* the six sends that open a batch of n files
BatchHeadMsgs(n) ==
    <<Msg("NewRead", n), Msg("NewProcess", n), Msg("NewComp", n),
      Msg("SetRead", 0), Msg("SetProcess", 0), Msg("SetComp", 0)>>

\* the head of the loop body, up to the call of load_images with tx.clone()
BatchHead ==
    /\ pc = "batch_head"
    /\ TxSend(BatchHeadMsgs(Len(batch_inputs)))
    /\ senders' = 2
    /\ pc' = "load"
    /\ UNCHANGED <<cli, indir, outdir, inputs, config, iter, batch_i, batch_inputs,
                   images, normalized, canvas, written, opened, yielded, worker, bars,
                   joined, result, fault, stderr, exit>>

\* load_images, one round of the map: NextRead is sent, the file is opened and
\* decodes; after the last file the Vec is returned
LoadImageOk ==
    /\ pc = "load"
    /\ LET file == batch_inputs[Len(images) + 1]
       IN  /\ TxSend(<<Msg("NextRead", file)>>)
           /\ opened' = Append(opened, file)
           /\ images' = Append(images, file)
    /\ pc' = IF Len(images) + 1 = Len(batch_inputs) THEN "normalize" ELSE "load"
    /\ UNCHANGED <<cli, indir, outdir, inputs, config, iter, batch_i, batch_inputs,
                   normalized, canvas, written, yielded, senders, worker, bars,
                   joined, result, fault, stderr, exit>>

\* a mutation of LoadImageErr: the failed file is skipped and the map goes on
LoadImageErrSkipped ==
    /\ pc = "load"
    /\ Len(images) + 1 < Len(batch_inputs)
    /\ LET file == batch_inputs[Len(images) + 1]
       IN  /\ TxSend(<<Msg("NextRead", file)>>)
           /\ opened' = Append(opened, file)
           /\ images' = Append(images, file)
    /\ fault' = [fault EXCEPT !.kind = "open", !.at = Len(opened) + 1]
    /\ UNCHANGED <<pc, cli, indir, outdir, inputs, config, iter, batch_i, batch_inputs,
                   normalized, canvas, written, yielded, senders, worker, bars,
                   joined, result, stderr, exit>>

\* load_images, one round of the map: NextRead is sent, image::open fails, the
\* collect stops at this Err and `?` returns it (Image error)
LoadImageErr ==
    /\ pc = "load"
    /\ LET file == batch_inputs[Len(images) + 1]
       IN  /\ TxSend(<<Msg("NextRead", file)>>)
           /\ opened' = Append(opened, file)
    /\ Abort("Image", "open", Len(opened) + 1)
    /\ UNCHANGED <<cli, indir, outdir, inputs, config, iter, batch_i, batch_inputs,
                   images, normalized, canvas, written, yielded, worker, bars, joined,
                   stderr, exit>>

\* draw_canvas, one round of the first map: NextProcess is sent, the image is
\* rotated when portrait and resized
NormalizeImage ==
    /\ pc = "normalize"
    /\ TxSend(<<Msg("NextProcess", 0)>>)
    /\ normalized' = Append(normalized, images[Len(normalized) + 1])
    /\ pc' = IF Len(normalized) + 1 = Len(images) THEN "compose" ELSE "normalize"
    /\ UNCHANGED <<cli, indir, outdir, inputs, config, iter, batch_i, batch_inputs,
                   images, canvas, written, opened, yielded, senders, worker, bars,
                   joined, result, fault, stderr, exit>>

\* a mutation of Placement: y is computed from col
PlacementYFromCol(cfg, i, image) ==
    LET rc == row_and_col_from_index(cfg.n_h, i)
        row == rc[1]
        col == rc[2]
    IN  [i |-> i, image |-> image, row |-> row, col |-> col,
         x |-> cfg.paper_border_px + col * (cfg.max_w_px + cfg.min_margin_h_px),
         y |-> cfg.paper_border_px + col * (cfg.max_h_px + cfg.min_margin_v_px)]

\* the placement of the image at position i of the batch
Placement(cfg, i, image) ==
    LET rc == row_and_col_from_index(cfg.n_h, i)
        row == rc[1]
        col == rc[2]
    IN  [i |-> i, image |-> image, row |-> row, col |-> col,
         x |-> cfg.paper_border_px + col * (cfg.max_w_px + cfg.min_margin_h_px),
         y |-> cfg.paper_border_px + row * (cfg.max_h_px + cfg.min_margin_v_px)]

\* draw_canvas, one round of the for_each: NextComp is sent and the image is
\* overlaid at its cell; after the last one the canvas is returned
ComposeImage ==
    /\ pc = "compose"
    /\ TxSend(<<Msg("NextComp", 0)>>)
    /\ canvas' = Append(canvas, Placement(config, Len(canvas), normalized[Len(canvas) + 1]))
    /\ IF Len(canvas) + 1 = Len(normalized)
       THEN pc' = "save" /\ senders' = 1
       ELSE pc' = "compose" /\ senders' = senders
    /\ UNCHANGED <<cli, indir, outdir, inputs, config, iter, batch_i, batch_inputs,
                   images, normalized, written, opened, yielded, worker, bars, joined,
                   result, fault, stderr, exit>>

\* a mutation of OutputName: the pages are numbered from one
OutputNameOneBased(i) == <<"output_", i + 1, ".png">>

\* format!("{}/output_{}.png", output_dir, i)
OutputName(i) == <<"output_", i, ".png">>

\* canvas.save(output_path) succeeds
SaveOk ==
    /\ pc = "save"
    /\ written' = Append(written, [name |-> OutputName(batch_i), cells |-> canvas])
    /\ pc' = "next_output"
    /\ UNCHANGED <<cli, indir, outdir, inputs, config, iter, batch_i, batch_inputs,
                   images, normalized, canvas, opened, yielded, chan, sent, sendFailed,
                   senders, worker, bars, joined, result, fault, stderr, exit>>

\* canvas.save(output_path) fails (Image error)
SaveErr ==
    /\ pc = "save"
    /\ Abort("Image", "save", batch_i)
    /\ UNCHANGED <<cli, indir, outdir, inputs, config, iter, batch_i, batch_inputs,
                   images, normalized, canvas, written, opened, yielded, chan, sent,
                   sendFailed, worker, bars, joined, stderr, exit>>

\* the last statement of the loop body
SendNextOutput ==
    /\ pc = "next_output"
    /\ TxSend(<<Msg("NextOutput", 0)>>)
    /\ pc' = "next_batch"
    /\ UNCHANGED <<cli, indir, outdir, inputs, config, iter, batch_i, batch_inputs,
                   images, normalized, canvas, written, opened, yielded, senders,
                   worker, bars, joined, result, fault, stderr, exit>>

\* a mutation of FinishMsgs: the two sends are swapped
FinishMsgsStopFirst == <<Msg("Stop", 0), Msg("Println", 0)>>

\* the sends after the loop: Println("Done!") and then Stop
FinishMsgs == <<Msg("Println", 0), Msg("Stop", 0)>>

Finish ==
    /\ pc = "finish"
    /\ TxSend(FinishMsgs)
    /\ pc' = "join"
    /\ UNCHANGED <<cli, indir, outdir, inputs, config, iter, batch_i, batch_inputs,
                   images, normalized, canvas, written, opened, yielded, senders,
                   worker, bars, joined, result, fault, stderr, exit>>

\* a mutation of JoinReady: the handle is dropped instead of joined
JoinDetached(w) == TRUE

\* handle.join() returns once the worker thread has ended
JoinReady(w) == w \in {"exited", "panicked"}

\* `let _ = handle.join()`
Join ==
    /\ pc = "join"
    /\ JoinReady(worker)
    /\ joined' = TRUE
    /\ pc' = "ret_ok"
    /\ UNCHANGED <<cli, indir, outdir, inputs, config, iter, batch_i, batch_inputs,
                   images, normalized, canvas, written, opened, yielded, chan, sent,
                   sendFailed, senders, worker, bars, result, fault, stderr, exit>>

\* process_with_pb returns Ok(()), dropping tx
ReturnOk ==
    /\ pc = "ret_ok"
    /\ result' = Ok
    /\ senders' = 0
    /\ pc' = "main"
    /\ UNCHANGED <<cli, indir, outdir, inputs, config, iter, batch_i, batch_inputs,
                   images, normalized, canvas, written, opened, yielded, chan, sent,
                   sendFailed, worker, bars, joined, fault, stderr, exit>>

\* a mutation of MainExit: main is `process_with_pb()?`
MainExitPropagates(res) == IF res.tag = "Err" THEN "Err" ELSE "Ok"

\* what main returns after process_with_pb returned res
MainExit(res) == "Ok"

\* main: an Err is printed with eprintln!, then Ok(()) is returned and the
\* process ends
MainReturn ==
    /\ pc = "main"
    /\ stderr' = IF result.tag = "Err" THEN Append(stderr, result.kind) ELSE stderr
    /\ exit' = MainExit(result)
    /\ pc' = "exited"
    /\ UNCHANGED <<cli, indir, outdir, inputs, config, iter, batch_i, batch_inputs,
                   images, normalized, canvas, written, opened, yielded, chan, sent,
                   sendFailed, senders, worker, bars, joined, result, fault>>

\* ------------------------------------------------------ the progress worker
\* ProgressBar::reset, inc, set_position, set_length, finish_with_message
BarReset(b) == [b EXCEPT !.pos = 0, !.finished = FALSE]
BarInc(b) == [b EXCEPT !.pos = b.pos + 1]
BarSetPos(b, n) == [b EXCEPT !.pos = n]
BarSetLen(b, n) == [b EXCEPT !.len = n]
BarFinish(b) == [b EXCEPT !.pos = b.len, !.finished = TRUE]

\* one arm of the match in the event loop: the bars after message m
Handle(b, m) ==
    CASE m.t = "Stop" -> [b EXCEPT !.removed = TRUE]
      [] m.t = "NewOutput" -> [b EXCEPT !.output = BarReset(BarSetLen(b.output, m.n))]
      [] m.t = "NewRead" -> [b EXCEPT !.read = BarReset(BarSetLen(b.read, m.n))]
      [] m.t = "NewProcess" -> [b EXCEPT !.process = BarReset(BarSetLen(b.process, m.n))]
      [] m.t = "NewComp" -> [b EXCEPT !.comp = BarSetLen(b.comp, m.n)]
      [] m.t = "NextOutput" -> [b EXCEPT !.output = BarInc(b.output)]
      [] m.t = "NextRead" ->
            IF BarInc(b.read).pos = b.read.len
            THEN [b EXCEPT !.read = BarFinish(BarInc(b.read)), !.read_msg = Msg("done", 0)]
            ELSE [b EXCEPT !.read = BarInc(b.read), !.read_msg = Msg("file", m.n)]
      [] m.t = "SetRead" -> [b EXCEPT !.read = BarSetPos(b.read, m.n)]
      [] m.t = "Println" -> b
      [] m.t = "NextProcess" -> [b EXCEPT !.process = BarInc(b.process)]
      [] m.t = "SetProcess" -> [b EXCEPT !.process = BarSetPos(b.process, m.n)]
      [] m.t = "NextComp" -> [b EXCEPT !.comp = BarInc(b.comp)]
      [] m.t = "SetComp" -> [b EXCEPT !.comp = BarSetPos(b.comp, m.n)]

\* a mutation of WorkerRecv: the Stop arm removes the bars without `break`
WorkerRecvNoBreak ==
    /\ pc /= "exited"
    /\ worker = "running"
    /\ chan /= <<>>
    /\ bars' = Handle(bars, Head(chan))
    /\ chan' = Tail(chan)
    /\ worker' = worker
    /\ UNCHANGED <<pc, cli, indir, outdir, inputs, config, iter, batch_i, batch_inputs,
                   images, normalized, canvas, written, opened, yielded, sent,
                   sendFailed, senders, joined, result, fault, stderr, exit>>

\* rx.recv() returns Ok(m): the arm of m runs, and Stop breaks the loop
WorkerRecv ==
    /\ pc /= "exited"
    /\ worker = "running"
    /\ chan /= <<>>
    /\ bars' = Handle(bars, Head(chan))
    /\ chan' = Tail(chan)
    /\ worker' = IF Head(chan).t = "Stop" THEN "exited" ELSE worker
    /\ UNCHANGED <<pc, cli, indir, outdir, inputs, config, iter, batch_i, batch_inputs,
                   images, normalized, canvas, written, opened, yielded, sent,
                   sendFailed, senders, joined, result, fault, stderr, exit>>

\* rx.recv() returns Err: the queue is empty and every Sender is dropped
WorkerDisconnected ==
    /\ pc /= "exited"
    /\ worker = "running"
    /\ chan = <<>>
    /\ senders = 0
    /\ worker' = "exited"
    /\ UNCHANGED <<pc, cli, indir, outdir, inputs, config, iter, batch_i, batch_inputs,
                   images, normalized, canvas, written, opened, yielded, chan, sent,
                   sendFailed, senders, bars, joined, result, fault, stderr, exit>>

\* the thread's closure unwinds (a panic inside the display library): the
\* receiver is dropped with whatever is queued, and so are the bars.  This is
\* the case the ignored results of tx.send and handle.join provide for: a
\* send fails only once the receiver is gone, a join only after a panic.
WorkerPanic ==
    /\ pc /= "exited"
    /\ worker = "running"
    /\ worker' = "panicked"
    /\ chan' = <<>>
    /\ bars' = NoBars
    /\ UNCHANGED <<pc, cli, indir, outdir, inputs, config, iter, batch_i, batch_inputs,
                   images, normalized, canvas, written, opened, yielded, sent,
                   sendFailed, senders, joined, result, fault, stderr, exit>>

\* the steps of the main flow
MainFlow ==
    \/ ScanReadDirErr \/ ScanEntryErr \/ ScanOk \/ Configure \/ RemoveDirAll
    \/ CreateDirOk \/ CreateDirErr \/ InitPb \/ MakeIter \/ ForNextSome \/ ForNextNone
    \/ BatchHead \/ LoadImageOk \/ LoadImageErr \/ NormalizeImage \/ ComposeImage
    \/ SaveOk \/ SaveErr \/ SendNextOutput \/ Finish \/ Join \/ ReturnOk \/ MainReturn

Next ==
    \/ ScanReadDirErr \/ ScanEntryErr \/ ScanOk \/ Configure \/ RemoveDirAll
    \/ CreateDirOk \/ CreateDirErr \/ InitPb \/ MakeIter \/ ForNextSome \/ ForNextNone
    \/ BatchHead \/ LoadImageOk \/ LoadImageErr \/ NormalizeImage \/ ComposeImage
    \/ SaveOk \/ SaveErr \/ SendNextOutput \/ Finish \/ Join \/ ReturnOk \/ MainReturn
    \/ WorkerRecv \/ WorkerDisconnected \/ WorkerPanic

Spec == Init /\ [][Next]_vars

\* the pipeline under scheduling: the main thread keeps running while it has
\* a step to take, and the worker thread, blocked in rx.recv(), is woken by a
\* message or by the disconnection of the channel.  A panic is never owed.
SpecLive ==
    /\ Init
    /\ [][Next]_vars
    /\ WF_vars(MainFlow)
    /\ WF_vars(WorkerRecv \/ WorkerDisconnected)

\* ------------------------------------------------- harness: BatchIter alone
\* a command line with no option given
NoOptions ==
    [nh |-> {}, nv |-> {}, height |-> {}, border |-> {}, margin |-> {}, ppc |-> {},
     ppi |-> {}]

\* BatchIter::new over any sequence of at most MaxLen items and any batch
\* size from 1 to MaxBatch, as tests::test_iter builds it
InitBatch ==
    /\ pc = "iter"
    /\ cli = NoOptions
    /\ indir = [readable |-> FALSE, entries |-> <<>>]
    /\ outdir = "absent"
    /\ iter \in {BatchIterNew(s, b) : s \in SeqsUpTo(1..MaxItem, MaxLen), b \in 1..MaxBatch}
    /\ inputs = iter.inner
    /\ Idle

\* iter.next() returns Some(batch)
IterNextSome ==
    /\ pc = "iter"
    /\ BatchIterNext(iter).some
    /\ yielded' = Append(yielded, BatchIterNext(iter).batch)
    /\ iter' = BatchIterNext(iter).it
    /\ UNCHANGED <<pc, cli, indir, outdir, inputs, config, batch_i, batch_inputs,
                   images, normalized, canvas, written, opened, chan, sent, sendFailed,
                   senders, worker, bars, joined, result, fault, stderr, exit>>

\* iter.next() returns None
IterNextNone ==
    /\ pc = "iter"
    /\ ~BatchIterNext(iter).some
    /\ iter' = BatchIterNext(iter).it
    /\ pc' = "iter_done"
    /\ UNCHANGED <<cli, indir, outdir, inputs, config, batch_i, batch_inputs, images,
                   normalized, canvas, written, opened, yielded, chan, sent,
                   sendFailed, senders, worker, bars, joined, result, fault, stderr,
                   exit>>

NextBatch == IterNextSome \/ IterNextNone

SpecBatch == InitBatch /\ [][NextBatch]_vars

\* ------------------------------------------ harness: from_cli_default alone
\* the command lines of the harness: every option absent or given
CfgClis ==
    [nh     : Opt(1..MaxGrid),
     nv     : Opt(1..MaxGrid),
     height : Opt({10 * h : h \in (-1)..MaxHeightCm}),
     border : Opt({10 * b : b \in 0..MaxBorderCm}),
     margin : Opt({10 * m : m \in (-1)..MaxMarginCm}),
     ppc    : Opt({3937 * d : d \in 0..MaxDensityStep}),
     ppi    : Opt({150 * d : d \in 0..MaxDensityStep})]

InitCfg ==
    /\ pc = "cfg"
    /\ cli \in CfgClis
    /\ indir = [readable |-> FALSE, entries |-> <<>>]
    /\ outdir = "absent"
    /\ iter = BatchIterNew(<<>>, 0)
    /\ inputs = <<>>
    /\ Idle

\* Config::from_cli_default(&cli) is called and returns
CfgCall ==
    /\ pc = "cfg"
    /\ config' = FromCliDefault(cli)
    /\ pc' = "cfg_done"
    /\ UNCHANGED <<cli, indir, outdir, inputs, iter, batch_i, batch_inputs, images,
                   normalized, canvas, written, opened, yielded, chan, sent,
                   sendFailed, senders, worker, bars, joined, result, fault, stderr,
                   exit>>

\* the largest image resize can return for the config: max_w_px wide and
\* target_h_px high
LargestNormalized(cfg) == [w |-> cfg.max_w_px, h |-> cfg.target_h_px]

\* the layout loop of draw_canvas on a full batch of n_h * n_v normalized
\* images of the largest size
CfgDraw ==
    /\ pc = "cfg_done"
    /\ normalized' = [i \in 1..(config.n_h * config.n_v) |-> LargestNormalized(config)]
    /\ canvas' = [i \in 1..(config.n_h * config.n_v) |->
                    Placement(config, i - 1, LargestNormalized(config))]
    /\ pc' = "cfg_drawn"
    /\ UNCHANGED <<cli, indir, outdir, inputs, config, iter, batch_i, batch_inputs,
                   images, written, opened, yielded, chan, sent, sendFailed, senders,
                   worker, bars, joined, result, fault, stderr, exit>>

NextCfg == CfgCall \/ CfgDraw

SpecCfg == InitCfg /\ [][NextCfg]_vars

\* ------------------------------------- harness: the normalization closure
\* DynamicImage::rotate270: a quarter turn, width and height change places
rotate270(img) == [w |-> img.h, h |-> img.w]

\* a mutation of Oriented: the test is `image.width() > image.height()`
OrientedWidthTest(img) == IF img.w > img.h THEN rotate270(img) ELSE img

\* `if image.height() > image.width() { image.rotate270() } else { image.clone() }`
Oriented(img) == IF img.h > img.w THEN rotate270(img) ELSE img

\* DynamicImage::resize(nwidth, nheight, _): the largest size of the same
\* aspect ratio that fits in nwidth x nheight, each side rounded and at least 1
resize(img, nwidth, nheight) ==
    LET byWidth == nwidth * img.h <= nheight * img.w
        nw == IF byWidth THEN nwidth ELSE RoundDiv(img.w * nheight, img.h)
        nh == IF byWidth THEN RoundDiv(img.h * nwidth, img.w) ELSE nheight
    IN  [w |-> IF nw < 1 THEN 1 ELSE nw, h |-> IF nh < 1 THEN 1 ELSE nh]

\* the closure of the map in draw_canvas for one image: the source, the
\* intermediate handed to resize and the image resize returns
Normalize(cfg, img) ==
    [src |-> img,
     mid |-> Oriented(img),
     out |-> resize(Oriented(img), cfg.max_w_px, cfg.target_h_px)]

\* one decoded image of any small size, and a config from the command line
InitNorm ==
    /\ pc = "norm"
    /\ cli \in {[NoOptions EXCEPT !.nh = nh] : nh \in Opt(1..MaxNh)}
    /\ config = FromCliDefault(cli)
    /\ images \in {<<[w |-> w, h |-> h]>> : w \in 1..MaxDim, h \in 1..MaxDim}
    /\ indir = [readable |-> FALSE, entries |-> <<>>]
    /\ outdir = "absent"
    /\ iter = BatchIterNew(<<>>, 0)
    /\ inputs = <<>>
    /\ batch_i = 0
    /\ batch_inputs = <<>>
    /\ normalized = <<>>
    /\ canvas = <<>>
    /\ written = <<>>
    /\ opened = <<>>
    /\ yielded = <<>>
    /\ chan = <<>>
    /\ sent = <<>>
    /\ sendFailed = 0
    /\ senders = 0
    /\ worker = "none"
    /\ bars = NoBars
    /\ joined = FALSE
    /\ result = Pending
    /\ fault = NoFault
    /\ stderr = <<>>
    /\ exit = "running"

\* the closure runs on the image
NormCall ==
    /\ pc = "norm"
    /\ normalized' = <<Normalize(config, images[1])>>
    /\ pc' = "norm_done"
    /\ UNCHANGED <<cli, indir, outdir, inputs, config, iter, batch_i, batch_inputs,
                   images, canvas, written, opened, yielded, chan, sent, sendFailed,
                   senders, worker, bars, joined, result, fault, stderr, exit>>

NextNorm == NormCall

SpecNorm == InitNorm /\ [][NextNorm]_vars

\* ------------------------------------------------------------- properties
\* C1 (SpecBatch): once next has returned None, the batches yielded are
\* ceil(k/b) in number, each holds between 1 and b items, every batch but the
\* last holds exactly b, and their concatenation is the input sequence.
C1_BatchIterSplits ==
    pc = "iter_done" =>
        /\ Len(yielded) = CeilDiv(Len(inputs), iter.batch_size)
        /\ \A i \in 1..Len(yielded) :
              /\ Len(yielded[i]) >= 1
              /\ Len(yielded[i]) <= iter.batch_size
              /\ (i < Len(yielded) => Len(yielded[i]) = iter.batch_size)
        /\ Concat(yielded) = inputs

\* five items in batches of two: two full batches and a last one of one item
C1_Witness ==
    /\ pc = "iter_done"
    /\ Len(inputs) = 5
    /\ iter.batch_size = 2
    /\ Len(yielded) = 3
    /\ Len(yielded[3]) = 1

\* the images placed on a page, in placement order
ImagesOf(page) == [j \in 1..Len(page.cells) |-> page.cells[j].image]

\* C2 (Spec): a run that returns Ok has written ceil(k/(n_h*n_v)) pages,
\* named output_0, output_1, ... in batch order, page i composed from exactly
\* the inputs i*n_h*n_v .. min(k, (i+1)*n_h*n_v)-1; 13 inputs on the 4x3 grid
\* give 2 pages, the second holding one image at cell (0,0).
C2_PagesWritten ==
    result = Ok =>
        LET b == config.n_h * config.n_v
            k == Len(inputs)
        IN  /\ Len(written) = CeilDiv(k, b)
            /\ \A p \in 1..Len(written) :
                  /\ written[p].name = <<"output_", p - 1, ".png">>
                  /\ ImagesOf(written[p]) = SubSeq(inputs, (p - 1) * b + 1, Min(k, p * b))
            /\ (k = 13 /\ config.n_h = 4 /\ config.n_v = 3) =>
                  /\ Len(written) = 2
                  /\ Len(written[2].cells) = 1
                  /\ written[2].cells[1].row = 0
                  /\ written[2].cells[1].col = 0

\* the run of 13 files on the default 4x3 grid has returned Ok
C2_Witness ==
    /\ result = Ok
    /\ Len(inputs) = 13
    /\ config.n_h = 4
    /\ config.n_v = 3
    /\ Len(written) = 2

\* the target height asked for, in pixels, before the validation block
RequestedHeightPx == CmToPx(UnwrapOr(cli.height, DefaultHeight), Ppc(cli))

\* C3 (SpecCfg): after from_cli_default has returned, target_h_px <= max_h_px;
\* and when the rounded requested height exceeds max_h_px, target_h_px is
\* max_h_px and a Config is returned, no error.
C3_TargetClamped ==
    pc \in {"cfg_done", "cfg_drawn"} =>
        /\ config.target_h_px <= config.max_h_px
        /\ RequestedHeightPx > config.max_h_px =>
              /\ config.target_h_px = config.max_h_px
              /\ result = Pending
        /\ RequestedHeightPx <= config.max_h_px => config.target_h_px = RequestedHeightPx

\* a request above a positive maximum has been clamped
C3_Witness ==
    /\ pc = "cfg_done"
    /\ RequestedHeightPx > config.max_h_px
    /\ config.max_h_px > 0
    /\ config.target_h_px = config.max_h_px

\* every page composed so far, the one in progress included
PagesSoFar == [p \in 1..Len(written) |-> written[p].cells] \o <<canvas>>

\* C4 (Spec): the image at position i of a batch is placed at row i / n_h and
\* column i % n_h, at x = border + (i % n_h) * (max_w + margin_h) and
\* y = border + (i / n_h) * (max_h + margin_v); every row is below n_v, every
\* column below n_h, and no two positions of a page share a cell.
C4_RowMajorPlacement ==
    \A p \in 1..Len(PagesSoFar) :
        LET cells == PagesSoFar[p]
        IN  /\ \A j \in 1..Len(cells) :
                  /\ cells[j].i = j - 1
                  /\ cells[j].row = (j - 1) \div config.n_h
                  /\ cells[j].col = (j - 1) % config.n_h
                  /\ cells[j].x = config.paper_border_px
                        + ((j - 1) % config.n_h) * (config.max_w_px + config.min_margin_h_px)
                  /\ cells[j].y = config.paper_border_px
                        + ((j - 1) \div config.n_h) * (config.max_h_px + config.min_margin_v_px)
                  /\ cells[j].row < config.n_v
                  /\ cells[j].col < config.n_h
            /\ \A j1, j2 \in 1..Len(cells) :
                  j1 /= j2 => <<cells[j1].row, cells[j1].col>> /= <<cells[j2].row, cells[j2].col>>

\* a full page of the 4x3 grid: index 3 is at (0,3), index 11 at (2,3)
C4_Witness ==
    /\ config.n_h = 4
    /\ config.n_v = 3
    /\ Len(canvas) = 12
    /\ canvas[4].row = 0 /\ canvas[4].col = 3
    /\ canvas[12].row = 2 /\ canvas[12].col = 3

\* C5 (Spec): when a load fails at input position f (batch j), the files
\* opened are exactly inputs 1..f, each once, nothing of batch j is normalized
\* or composited, the pages on disk are those of batches 0..j-1 and stay so,
\* and the run has ended with an Image error; when the save of batch j fails,
\* the pages on disk are those of batches 0..j-1 and nothing later is opened.
C5_FailureAborts ==
    LET b == config.n_h * config.n_v
        k == Len(inputs)
    IN  /\ fault.kind = "open" =>
              /\ result = Err("Image")
              /\ pc \in {"main", "exited"}
              /\ opened = SubSeq(inputs, 1, fault.at)
              /\ normalized = <<>>
              /\ canvas = <<>>
              /\ Len(written) = (fault.at - 1) \div b
              /\ \A p \in 1..Len(written) :
                    /\ written[p].name = <<"output_", p - 1, ".png">>
                    /\ ImagesOf(written[p]) = SubSeq(inputs, (p - 1) * b + 1, p * b)
        /\ fault.kind = "save" =>
              /\ result = Err("Image")
              /\ pc \in {"main", "exited"}
              /\ opened = SubSeq(inputs, 1, Min(k, (fault.at + 1) * b))
              /\ Len(written) = fault.at
              /\ \A p \in 1..Len(written) :
                    /\ written[p].name = <<"output_", p - 1, ".png">>
                    /\ ImagesOf(written[p]) = SubSeq(inputs, (p - 1) * b + 1, p * b)

\* a load failed in a later batch, before the last input, and the process
\* has ended with the earlier page on disk
C5_Witness ==
    /\ fault.kind = "open"
    /\ pc = "exited"
    /\ Len(written) >= 1
    /\ fault.at < Len(inputs)

\* Stop has been passed to tx.send
StopSent == \E i \in 1..Len(sent) : sent[i].t = "Stop"

\* C6 (Spec): Stop is sent at most once and nothing is sent after it.
C6_NothingAfterStop ==
    \A i \in 1..Len(sent) : sent[i].t = "Stop" => i = Len(sent)

\* Stop was sent after the events of at least one page and the process ended
C6_Witness ==
    /\ StopSent
    /\ Len(sent) > 2
    /\ Len(written) >= 1
    /\ pc = "exited"

\* C7 as stated (Spec): whenever the worker was started and the main flow has
\* returned, Stop was sent and the worker was joined.
C7_AlwaysStoppedAndJoined ==
    (worker /= "none" /\ pc \in {"main", "exited"}) => (StopSent /\ joined)

\* C7 amended (Spec): when the worker was started and the main flow has
\* returned, Stop was sent and the worker joined (having left its loop) exactly
\* when the run returned Ok; a run that aborted sent no Stop and joined nothing.
C7_StoppedAndJoinedOnSuccess ==
    (worker /= "none" /\ pc \in {"main", "exited"}) =>
        IF result = Ok
        THEN StopSent /\ joined /\ worker \in {"exited", "panicked"}
        ELSE ~StopSent /\ ~joined

\* a run that wrote a page returned Ok after the join
C7_Witness ==
    /\ pc = "exited"
    /\ result = Ok
    /\ joined
    /\ worker = "exited"
    /\ Len(written) >= 1

\* what a run must have opened, written and returned, from its inputs, its
\* grid and the I/O failure it met; nothing of the worker or the channel
ExpectedOpened ==
    LET b == config.n_h * config.n_v
        k == Len(inputs)
    IN  CASE fault.kind = "none" -> inputs
          [] fault.kind = "open" -> SubSeq(inputs, 1, fault.at)
          [] fault.kind = "save" -> SubSeq(inputs, 1, Min(k, (fault.at + 1) * b))
          [] OTHER -> <<>>

ExpectedPages ==
    LET b == config.n_h * config.n_v
        k == Len(inputs)
    IN  CASE fault.kind = "none" -> CeilDiv(k, b)
          [] fault.kind = "open" -> (fault.at - 1) \div b
          [] fault.kind = "save" -> fault.at
          [] OTHER -> 0

ExpectedResult ==
    CASE fault.kind = "none" -> Ok
      [] fault.kind = "read_dir" -> Err("Input")
      [] fault.kind \in {"entry", "create_dir"} -> Err("Io")
      [] fault.kind \in {"open", "save"} -> Err("Image")

\* C8 (Spec): no step of the main flow before the join waits on the channel
\* or the worker, and once process_with_pb has returned, the files opened, the
\* pages written and the result are those fixed by the inputs, the grid and
\* the I/O failure alone, whatever the worker received, missed or refused.
C8_ProgressNeverInfluences ==
    /\ pc \notin {"join", "exited"} => ENABLED MainFlow
    /\ pc \in {"main", "exited"} =>
          /\ opened = ExpectedOpened
          /\ Len(written) = ExpectedPages
          /\ \A p \in 1..Len(written) :
                ImagesOf(written[p]) =
                    SubSeq(inputs, (p - 1) * config.n_h * config.n_v + 1,
                           Min(Len(inputs), p * config.n_h * config.n_v))
          /\ result = ExpectedResult

\* the worker died early, sends were refused, and the run still wrote its
\* two pages and returned Ok
C8_Witness ==
    /\ pc = "exited"
    /\ worker = "panicked"
    /\ sendFailed > 10
    /\ result = Ok
    /\ Len(written) = 2

\* C9 as stated (Spec): a failed removal of the existing output directory, a
\* failed creation and a failed page write each end the run with an error at
\* that point, no page being written afterwards.
C9_IoErrorsFatal ==
    /\ fault.remove =>
          /\ written = <<>>
          /\ pc \in {"main", "exited"} => result.tag = "Err"
    /\ fault.kind = "create_dir" => (result = Err("Io") /\ written = <<>>)
    /\ fault.kind = "save" => (result = Err("Image") /\ Len(written) = fault.at)

\* C10 (Spec): main returns Ok(()) in every run, and an error returned by
\* process_with_pb has been printed to the error stream exactly once.
C10_MainReturnsOk ==
    /\ Len(stderr) <= 1
    /\ pc = "exited" =>
          /\ exit = "Ok"
          /\ stderr = IF result.tag = "Err" THEN <<result.kind>> ELSE <<>>

\* a run that failed with an Image error after a page was written ended Ok
C10_Witness ==
    /\ pc = "exited"
    /\ result = Err("Image")
    /\ stderr = <<"Image">>
    /\ exit = "Ok"
    /\ Len(written) >= 1

\* px is the rational p/q (q > 0) rounded to the nearest integer, halves
\* upwards, and 0 when p/q is negative (a u32 holds no negative value)
NearestPx(px, p, q) ==
    IF p < 0 THEN px = 0
    ELSE 2 * q * px <= 2 * p + q /\ 2 * p + q < 2 * q * (px + 1)

\* the density the options select, as num/den pixels per centimetre
SelectedDensity ==
    IF cli.ppi /= {} THEN [num |-> 100 * (CHOOSE v \in cli.ppi : TRUE), den |-> 254]
    ELSE IF cli.ppc /= {} THEN [num |-> CHOOSE v \in cli.ppc : TRUE, den |-> 100]
    ELSE [num |-> 11811, den |-> 100]

\* C11 (SpecCfg): the density of the Config is ppi/2.54 when --ppi is given,
\* whatever --ppc is, else the given --ppc, else 118.11; the border, both
\* margins and the target height in pixels are the centimetre value times
\* that density rounded to the nearest integer (the target height before the
\* validation block of C3 lowers it to max_h_px); 1 cm at 118.11 is 118 px
\* and --ppi 300 gives the density 300/2.54.
C11_DensityAndPixels ==
    pc \in {"cfg_done", "cfg_drawn"} =>
        LET d == SelectedDensity
            border == IF cli.border = {} THEN 8 ELSE CHOOSE v \in cli.border : TRUE
            margin == IF cli.margin = {} THEN 3 ELSE CHOOSE v \in cli.margin : TRUE
            height == IF cli.height = {} THEN 50 ELSE CHOOSE v \in cli.height : TRUE
        IN  /\ config.ppc = d
            /\ NearestPx(config.paper_border_px, border * d.num, 10 * d.den)
            /\ NearestPx(config.min_margin_v_px, margin * d.num, 10 * d.den)
            /\ NearestPx(config.min_margin_h_px, margin * d.num, 10 * d.den)
            /\ \/ NearestPx(config.target_h_px, height * d.num, 10 * d.den)
               \/ /\ config.target_h_px = config.max_h_px
                  /\ 2 * height * d.num + 10 * d.den >= 2 * 10 * d.den * (config.max_h_px + 1)
            /\ (cli.border = {10} /\ d = [num |-> 11811, den |-> 100]) =>
                  config.paper_border_px = 118
            /\ cli.ppi = {300} => config.ppc = [num |-> 30000, den |-> 254]

\* --ppi 300 given together with a different --ppc, and a border of 1 cm:
\* the density is 300/2.54 and the border 118 px
C11_Witness ==
    /\ pc = "cfg_done"
    /\ cli.ppi = {300}
    /\ cli.ppc = {3937}
    /\ cli.border = {10}
    /\ config.ppc = [num |-> 30000, den |-> 254]
    /\ config.paper_border_px = 118

\* how many messages of variant t the main flow has sent
CountSent(t) == Cardinality({i \in 1..Len(sent) : sent[i].t = t})

\* C12 as stated (Spec): the total of NewOutput, the first message sent, is
\* the number of batches of size n_h*n_v the inputs split into; a run that
\* returns Ok has sent that many NextOutput, and the position of the output
\* bar never exceeds its length.
C12_OutputTotalIsBatchCount ==
    /\ worker /= "none" =>
          sent[1] = Msg("NewOutput", CeilDiv(Len(inputs), config.n_h * config.n_v))
    /\ result = Ok =>
          /\ sent[1].n = Len(yielded)
          /\ CountSent("NextOutput") = sent[1].n
    /\ bars.output.pos <= bars.output.len

\* n copies of the message m
Repeat(m, n) == [i \in 1..n |-> m]

\* the events of one batch in the order C13 gives: the six opening events,
\* one NextRead per file for the first nRead files, nProc NextProcess, nComp
\* NextComp, and NextOutput when out
BatchEvents(batch, nRead, nProc, nComp, out) ==
    <<Msg("NewRead", Len(batch)), Msg("NewProcess", Len(batch)), Msg("NewComp", Len(batch)),
      Msg("SetRead", 0), Msg("SetProcess", 0), Msg("SetComp", 0)>>
    \o [i \in 1..nRead |-> Msg("NextRead", batch[i])]
    \o Repeat(Msg("NextProcess", 0), nProc)
    \o Repeat(Msg("NextComp", 0), nComp)
    \o (IF out THEN <<Msg("NextOutput", 0)>> ELSE <<>>)

\* the last batch yielded is still being worked on, or was when the run failed
InBatch ==
    \/ pc \in {"batch_head", "load", "normalize", "compose", "save", "next_output"}
    \/ fault.kind \in {"open", "save"}

\* number of batches whose NextOutput must have been sent
BatchesDone == IF InBatch THEN Len(yielded) - 1 ELSE Len(yielded)

\* everything that must have been sent after NewOutput, from the batches
\* yielded and the progress of the batch in hand
EventsAfterNewOutput ==
    Concat([p \in 1..BatchesDone |->
              BatchEvents(yielded[p], Len(yielded[p]), Len(yielded[p]), Len(yielded[p]), TRUE)])
    \o (IF InBatch /\ pc /= "batch_head"
        THEN BatchEvents(yielded[Len(yielded)],
                         Len(opened) - Len(Concat(SubSeq(yielded, 1, Len(yielded) - 1))),
                         Len(normalized), Len(canvas), FALSE)
        ELSE <<>>)
    \o (IF pc \in {"join", "ret_ok"} \/ result = Ok
        THEN <<Msg("Println", 0), Msg("Stop", 0)>>
        ELSE <<>>)

\* C13 (Spec): the events of every batch are, in this order, NewRead(n),
\* NewProcess(n), NewComp(n), SetRead(0), SetProcess(0), SetComp(0), one
\* NextRead per file opened, n NextProcess, n NextComp and one NextOutput, the
\* last only once the page is saved; a load that fails at file j of its batch
\* leaves j+1 NextRead and nothing after them.
C13_BatchEventOrder ==
    /\ worker /= "none" => Tail(sent) = EventsAfterNewOutput
    /\ CountSent("NextRead") = Len(opened)
    /\ CountSent("NextOutput") <= Len(written)
    /\ fault.kind = "open" =>
          /\ normalized = <<>>
          /\ canvas = <<>>
          /\ sent[Len(sent)] = Msg("NextRead", inputs[fault.at])

\* one batch went through all its stages and the load of the second file of
\* the next batch failed
C13_Witness ==
    /\ pc = "exited"
    /\ fault.kind = "open"
    /\ CountSent("NextOutput") = 1
    /\ Len(written) = 1
    /\ Len(yielded) = 2
    /\ fault.at = Len(yielded[1]) + 2
    /\ Len(yielded[1]) > 1

\* C14 as stated (SpecLive): in every run a worker that is in its receive
\* loop eventually leaves it.
C14_WorkerAlwaysExits == (worker = "running") ~> (worker /= "running")

\* C14 amended (SpecLive): once Stop is sent the worker leaves its loop, the
\* join returns and the main flow always reaches the end of the process, which
\* in a run that failed may come before the worker has left its loop.
C14_WorkerExitsOrProcessEnds ==
    /\ (StopSent /\ worker = "running") ~> (worker /= "running")
    /\ (pc = "join") ~> joined
    /\ <>(pc = "exited")

\* a run that failed after the worker was started, whose worker found the
\* channel disconnected and left its loop before the process ended
C14_Witness ==
    /\ pc = "exited"
    /\ result = Err("Image")
    /\ ~StopSent
    /\ senders = 0
    /\ worker = "exited"

\* the BatchIter of the run has been constructed
IterMade == iter.batch_size > 0

\* C15 (Spec): pages are processed one at a time.  What has been pulled from
\* the input sequence is exactly the batches yielded, in order, and the rest
\* is still in the iterator; at most one batch is yielded beyond the pages
\* saved, and every file opened belongs to a batch yielded; a batch has at most
\* batch_size files, and a shorter one is the last, taken up to the first None.
C15_OnePageAtATime ==
    /\ Len(yielded) <= Len(written) + 1
    /\ Len(opened) <= Len(Concat(yielded))
    /\ opened = SubSeq(Concat(yielded), 1, Len(opened))
    /\ IterMade =>
          /\ Concat(yielded) \o iter.inner = inputs
          /\ \A p \in 1..Len(yielded) :
                /\ Len(yielded[p]) <= iter.batch_size
                /\ Len(yielded[p]) < iter.batch_size =>
                      (p = Len(yielded) /\ iter.inner = <<>>)
          /\ pc \in {"finish", "join", "ret_ok"} => iter.inner = <<>>

\* the second batch is being loaded after the first page was saved, and a
\* third batch is still in the iterator
C15_Witness ==
    /\ pc = "load"
    /\ Len(yielded) = 2
    /\ Len(written) = 1
    /\ iter.inner /= <<>>
    /\ Len(opened) > Len(yielded[1])

\* C16 (SpecNorm): a source image with height > width reaches resize turned,
\* its width and height swapped and so width > height; a source image with
\* height <= width, square ones included, reaches resize with its dimensions
\* unchanged.
C16_OrientationNormalized ==
    pc = "norm_done" =>
        LET n == normalized[1]
        IN  /\ n.src = images[1]
            /\ n.src.h > n.src.w =>
                  /\ n.mid = [w |-> n.src.h, h |-> n.src.w]
                  /\ n.mid.w > n.mid.h
            /\ n.src.h <= n.src.w => n.mid = n.src
            /\ n.out.w <= (IF config.max_w_px < 1 THEN 1 ELSE config.max_w_px)
            /\ n.out.h <= (IF config.target_h_px < 1 THEN 1 ELSE config.target_h_px)

\* a portrait image of 2 x 5 went through the closure
C16_Witness ==
    /\ pc = "norm_done"
    /\ images[1] = [w |-> 2, h |-> 5]
    /\ normalized[1].mid = [w |-> 5, h |-> 2]

\* C17 (Spec): when the input directory is missing or unreadable the run
\* aborts with an Input error before any side effect: the output directory is
\* never touched, the worker is never started, nothing is sent and no page is
\* written.
C17_InputErrorBeforeEffects ==
    /\ [](~indir.readable =>
            /\ pc \in {"scan", "main", "exited"}
            /\ pc /= "scan" => (result = Err("Input") /\ fault.kind = "read_dir")
            /\ pc = "exited" => stderr = <<"Input">>
            /\ worker = "none"
            /\ sent = <<>>
            /\ written = <<>>
            /\ opened = <<>>
            /\ ~fault.remove)
    /\ [][~indir.readable => outdir' = outdir]_vars

\* the run on a missing input directory ended with the Input error and the
\* output directory of an earlier run still in place
C17_Witness ==
    /\ ~indir.readable
    /\ pc = "exited"
    /\ result = Err("Input")
    /\ outdir = "stale"
    /\ worker = "none"

\* the pixels covered by two placements have nothing in common
Disjoint(a, b) ==
    \/ a.image.w = 0 \/ a.image.h = 0 \/ b.image.w = 0 \/ b.image.h = 0
    \/ a.x + a.image.w <= b.x
    \/ b.x + b.image.w <= a.x
    \/ a.y + a.image.h <= b.y
    \/ b.y + b.image.h <= a.y

\* C18 (SpecCfg): on a page composed from a config of from_cli_default and
\* normalized images no wider than max_w_px and no higher than target_h_px,
\* the rectangles of any two distinct positions of a batch of at most
\* n_h * n_v images are disjoint: neighbours in a row are max_w_px +
\* min_margin_h_px apart, neighbours in a column max_h_px + min_margin_v_px,
\* and target_h_px <= max_h_px.
C18_PlacementsDisjoint ==
    pc = "cfg_drawn" =>
        /\ config.target_h_px <= config.max_h_px
        /\ \A i \in 1..Len(canvas) :
              /\ canvas[i].image.w <= config.max_w_px
              /\ canvas[i].image.h <= config.target_h_px
              /\ canvas[i].row < config.n_v
              /\ canvas[i].col < config.n_h
              /\ canvas[i].x = config.paper_border_px
                                 + canvas[i].col * (config.max_w_px + config.min_margin_h_px)
              /\ canvas[i].y = config.paper_border_px
                                 + canvas[i].row * (config.max_h_px + config.min_margin_v_px)
        /\ \A i, j \in 1..Len(canvas) : i < j => Disjoint(canvas[i], canvas[j])

\* a full page of at least two rows and two columns with no margin between
\* the cells and the target height cut to the cell height: neighbours touch
C18_Witness ==
    /\ pc = "cfg_drawn"
    /\ cli.margin = {0}
    /\ config.n_h >= 2
    /\ config.n_v >= 2
    /\ Len(canvas) = config.n_h * config.n_v
    /\ config.max_w_px > 0
    /\ config.target_h_px = config.max_h_px
    /\ config.target_h_px > 0

====
